---- MODULE Spec2Model ----
(***************************************************************************)
(* Model of the EXIF-GPS decoding of the image viewer (src/src/main.rs):   *)
(* the tag accessors, the altitude and timestamp extractors, the decimal   *)
(* degree converter, the GPS part of get_file_info and the two button      *)
(* callbacks of main.                                                      *)
(*                                                                         *)
(* f64 values are modelled as exact signed fractions extended with the     *)
(* signed zeros, the infinities and NaN; binary rounding of the quotients  *)
(* is not modelled.                                                        *)
(***************************************************************************)
EXTENDS Integers, Sequences, FiniteSets, TLC

VARIABLES
    pc,            \* "ready" before the call under study, "returned" after it
    call,          \* name of the function that was called
    file_kind,     \* "ok", "unopenable" (File::open fails) or "no_exif" (parse fails)
    exif,          \* the parsed EXIF container: tag -> value
    components,    \* argument of convert_to_decimal_degree
    reference,     \* argument of convert_to_decimal_degree
    ret,           \* what the call returned (or that it panicked)
    frame_image,   \* image held by the display frame of main
    current_path,  \* the Rc<RefCell<Option<PathBuf>>> of main
    last_loaded,   \* history: path of the last image load that succeeded
    alive,         \* the process is still running
    dialog,        \* filename the last file dialog returned
    windows,       \* number of information windows shown so far
    shown          \* lines of the most recently shown information window

vars == <<pc, call, file_kind, exif, components, reference, ret,
          frame_image, current_path, last_loaded, alive, dialog, windows, shown>>

-----------------------------------------------------------------------------
(* Bounds of the model *)

\* longest rational sequence a tag holds
MaxLen == 4
\* information windows a run shows at most
MaxWindows == 2

-----------------------------------------------------------------------------
(* f64 arithmetic *)

RECURSIVE GCD(_, _)
GCD(a, b) == IF b = 0 THEN a ELSE GCD(b, a % b)

Abs(i) == IF i < 0 THEN -i ELSE i

\* a finite f64: sign, and magnitude n/d in lowest terms (0 is 0/1)
Fin(neg, n, d) ==
    LET g == GCD(n, d)
    IN [k |-> "fin", neg |-> neg, n |-> n \div g, d |-> d \div g]

Inf(neg) == [k |-> "inf", neg |-> neg, n |-> 1, d |-> 0]

NaN == [k |-> "nan", neg |-> FALSE, n |-> 0, d |-> 0]

Zero == Fin(FALSE, 0, 1)

SignedNum(a) == IF a.neg THEN -a.n ELSE a.n

\* exif::Rational::to_f64: num as f64 / denom as f64
to_f64(r) ==
    IF r.denom = 0
    THEN IF r.num = 0 THEN NaN ELSE Inf(FALSE)
    ELSE Fin(FALSE, r.num, r.denom)

F64Add(a, b) ==
    IF a.k = "nan" \/ b.k = "nan" THEN NaN
    ELSE IF a.k = "inf" /\ b.k = "inf" THEN (IF a.neg = b.neg THEN a ELSE NaN)
    ELSE IF a.k = "inf" THEN a
    ELSE IF b.k = "inf" THEN b
    ELSE LET s == SignedNum(a) * b.d + SignedNum(b) * a.d
         IN IF s = 0 THEN Fin(a.neg /\ b.neg, 0, 1)
            ELSE Fin(s < 0, Abs(s), a.d * b.d)

\* division by a positive finite constant (60.0, 3600.0)
F64DivBy(a, c) ==
    IF a.k = "fin" THEN Fin(a.neg, a.n, a.d * c) ELSE a

F64Neg(a) == IF a.k = "nan" THEN a ELSE [a EXCEPT !.neg = ~a.neg]

F64Abs(a) == [a EXCEPT !.neg = FALSE]

\* a >= 0.0 (false for NaN, true for -0.0)
F64Ge0(a) == a.k # "nan" /\ (~a.neg \/ (a.k = "fin" /\ a.n = 0))

DigitChar(i) == <<"0", "1", "2", "3", "4", "5", "6", "7", "8", "9">>[i + 1]

\* the decimal numeral of a natural number
RECURSIVE Numeral(_)
Numeral(n) ==
    IF n < 10 THEN <<DigitChar(n)>>
    ELSE Append(Numeral(n \div 10), DigitChar(n % 10))

\* the numeral of u32::MAX, 4294967295, where a saturating cast stops
U32MaxNumeral == <<"4", "2", "9", "4", "9", "6", "7", "2", "9", "5">>

\* `x as u32`: truncation toward zero, saturating, NaN to 0.  A u32 is kept as
\* its decimal numeral.  A finite quotient of two u32 never exceeds u32::MAX,
\* so only the infinity saturates.
AsU32(a) ==
    IF a.k = "nan" THEN Numeral(0)
    ELSE IF a.neg THEN Numeral(0)
    ELSE IF a.k = "inf" THEN U32MaxNumeral
    ELSE Numeral(a.n \div a.d)

-----------------------------------------------------------------------------
(* Strings: a Rust String or byte string is a sequence of one-byte tokens *)

\* a byte that is no valid UTF-8 on its own (0xFF)
BadByte == "xFF"

N == <<"N">>
S == <<"S">>
E == <<"E">>
W == <<"W">>

\* std::str::from_utf8(..).is_ok()
IsUtf8(bytes) == \A i \in 1..Len(bytes) : bytes[i] # BadByte

-----------------------------------------------------------------------------
(* convert_to_decimal_degree *)

\* a converter that only rejects sequences that are too short
convert_accepting_longer(comps, ref) ==
    IF Len(comps) < 3 THEN Zero
    ELSE LET decimal == F64Add(F64Add(to_f64(comps[1]), F64DivBy(to_f64(comps[2]), 60)),
                               F64DivBy(to_f64(comps[3]), 3600))
         IN IF ref = S \/ ref = W THEN F64Neg(decimal) ELSE decimal

\* a converter with the divisors of minutes and seconds exchanged
convert_swapped_divisors(comps, ref) ==
    IF Len(comps) # 3 THEN Zero
    ELSE LET decimal == F64Add(F64Add(to_f64(comps[1]), F64DivBy(to_f64(comps[2]), 3600)),
                               F64DivBy(to_f64(comps[3]), 60))
         IN IF ref = S \/ ref = W THEN F64Neg(decimal) ELSE decimal

convert_to_decimal_degree(comps, ref) ==
    IF Len(comps) # 3 THEN Zero
    ELSE LET degrees == to_f64(comps[1])
             minutes == to_f64(comps[2])
             seconds == to_f64(comps[3])
             decimal == F64Add(F64Add(degrees, F64DivBy(minutes, 60)),
                               F64DivBy(seconds, 3600))
         IN IF ref = S \/ ref = W THEN F64Neg(decimal) ELSE decimal

-----------------------------------------------------------------------------
(* EXIF values (exif::Value) and the container *)

Tags == {"GPSLatitude", "GPSLatitudeRef", "GPSLongitude", "GPSLongitudeRef",
         "GPSAltitude", "GPSAltitudeRef", "GPSTimeStamp", "GPSDateStamp"}

\* get_field returns None
Absent == [kind |-> "Absent", rationals |-> <<>>, chars |-> <<>>, bytes |-> <<>>]

\* Value::Rational(Vec<Rational>)
Rational(rs) == [kind |-> "Rational", rationals |-> rs, chars |-> <<>>, bytes |-> <<>>]

\* Value::Ascii(Vec<Vec<u8>>): zero or more byte strings
Ascii(cs) == [kind |-> "Ascii", rationals |-> <<>>, chars |-> cs, bytes |-> <<>>]

\* Value::Byte(Vec<u8>)
Byte(bs) == [kind |-> "Byte", rationals |-> <<>>, chars |-> <<>>, bytes |-> bs]

\* a value of a kind none of the accessors expects (Value::Short)
Short == [kind |-> "Short", rationals |-> <<>>, chars |-> <<>>, bytes |-> <<>>]

NoTags == [t \in Tags |-> Absent]

-----------------------------------------------------------------------------
(* Option values and what a call returns *)

None == [st |-> "None", v |-> <<>>]

Some(v) == [st |-> "Some", v |-> v]

\* index out of bounds: the thread panics
Panic == [st |-> "Panic", v |-> <<>>]

Pending == [st |-> "Pending", f |-> Zero, s |-> <<>>, lines |-> <<>>]

RetNone == [st |-> "None", f |-> Zero, s |-> <<>>, lines |-> <<>>]

RetPanic == [st |-> "Panic", f |-> Zero, s |-> <<>>, lines |-> <<>>]

RetF64(x) == [st |-> "Some", f |-> x, s |-> <<>>, lines |-> <<>>]

RetString(str) == [st |-> "Some", f |-> Zero, s |-> str, lines |-> <<>>]

RetLines(ls) == [st |-> "Some", f |-> Zero, s |-> <<>>, lines |-> ls]

-----------------------------------------------------------------------------
(* Tag accessors *)

get_gps_rational(ex, tag) ==
    IF ex[tag].kind = "Rational" THEN Some(ex[tag].rationals) ELSE None

\* the first string of an Ascii value, decoded: chars[0] panics on zero strings
first_ascii(value) ==
    IF value.kind # "Ascii" THEN None
    ELSE IF Len(value.chars) = 0 THEN Panic
    ELSE IF IsUtf8(value.chars[1]) THEN Some(value.chars[1])
    ELSE None

get_gps_ref(ex, tag) == first_ascii(ex[tag])

\* the closure over GPSAltitudeRef: bytes[0] panics on zero bytes
altitude_ref(ex) ==
    LET field == ex["GPSAltitudeRef"]
    IN IF field.kind # "Byte" THEN Some(FALSE)
       ELSE IF Len(field.bytes) = 0 THEN Panic
       ELSE Some(field.bytes[1] # 0)

get_gps_altitude(ex) ==
    LET altitude == get_gps_rational(ex, "GPSAltitude")
    IN IF altitude.st = "None" THEN RetNone
       ELSE IF Len(altitude.v) = 0 THEN RetNone
       ELSE LET alt_ref == altitude_ref(ex)
                value == to_f64(altitude.v[1])
            IN IF alt_ref.st = "Panic" THEN RetPanic
               ELSE RetF64(IF alt_ref.v THEN F64Neg(value) ELSE value)

-----------------------------------------------------------------------------
(* Formatting *)

\* "{}" of a u32: the numeral without padding
FmtPlain(ds) == ds

\* "{:02}" of a u32: the numeral, zero-padded on the left to a width of at least 2
Fmt02(ds) ==
    IF Len(ds) < 2 THEN <<"0">> \o ds ELSE ds

\* "{:02}:{:02}:{:02}"
FmtTime(hour, minute, second) ==
    Fmt02(hour) \o <<":">> \o Fmt02(minute) \o <<":">> \o Fmt02(second)

get_gps_timestamp(ex) ==
    LET time == get_gps_rational(ex, "GPSTimeStamp")
    IN IF time.st = "None" THEN RetNone
       ELSE IF Len(time.v) # 3 THEN RetNone
       ELSE LET hour == AsU32(to_f64(time.v[1]))
                minute == AsU32(to_f64(time.v[2]))
                second == AsU32(to_f64(time.v[3]))
                date == first_ascii(ex["GPSDateStamp"])
            IN IF date.st = "Panic" THEN RetPanic
               ELSE IF date.st = "Some"
               THEN RetString(date.v \o <<" ">> \o FmtTime(hour, minute, second))
               ELSE RetString(FmtTime(hour, minute, second))

-----------------------------------------------------------------------------
(* get_file_info, the GPS information block *)

\* one pushed line, kept structured: the f64 arguments of its format string
LocationLine(latitude, longitude) ==
    [line |-> "Location",
     lat |-> F64Abs(latitude), lat_hemi |-> IF F64Ge0(latitude) THEN "N" ELSE "S",
     lon |-> F64Abs(longitude), lon_hemi |-> IF F64Ge0(longitude) THEN "E" ELSE "W",
     alt |-> Zero, text |-> <<>>]

MapsLine(latitude, longitude) ==
    [line |-> "Google Maps Link",
     lat |-> latitude, lat_hemi |-> "", lon |-> longitude, lon_hemi |-> "",
     alt |-> Zero, text |-> <<>>]

AltitudeLine(altitude) ==
    [line |-> "Altitude",
     lat |-> Zero, lat_hemi |-> "", lon |-> Zero, lon_hemi |-> "",
     alt |-> altitude, text |-> <<>>]

TimestampLine(time) ==
    [line |-> "GPS Timestamp",
     lat |-> Zero, lat_hemi |-> "", lon |-> Zero, lon_hemi |-> "",
     alt |-> Zero, text |-> time]

\* the lines of the coordinate block, or Panic
coordinate_lines(ex) ==
    LET lat == get_gps_rational(ex, "GPSLatitude")
        lat_ref == get_gps_ref(ex, "GPSLatitudeRef")
        lon == get_gps_rational(ex, "GPSLongitude")
        lon_ref == get_gps_ref(ex, "GPSLongitudeRef")
    IN IF lat_ref.st = "Panic" \/ lon_ref.st = "Panic" THEN Panic
       ELSE IF lat.st = "Some" /\ lat_ref.st = "Some"
               /\ lon.st = "Some" /\ lon_ref.st = "Some"
       THEN LET latitude == convert_to_decimal_degree(lat.v, lat_ref.v)
                longitude == convert_to_decimal_degree(lon.v, lon_ref.v)
            IN Some(<<LocationLine(latitude, longitude),
                      MapsLine(latitude, longitude)>>)
       ELSE Some(<<>>)

\* kind: whether File::open and read_from_container succeed; ex: the container
get_file_info(kind, ex) ==
    IF kind # "ok" THEN RetLines(<<>>)
    ELSE LET coords == coordinate_lines(ex)
             alt == get_gps_altitude(ex)
             time == get_gps_timestamp(ex)
         IN IF coords.st = "Panic" \/ alt.st = "Panic" \/ time.st = "Panic"
            THEN RetPanic
            ELSE RetLines(coords.v
                          \o (IF alt.st = "Some" THEN <<AltitudeLine(alt.f)>> ELSE <<>>)
                          \o (IF time.st = "Some" THEN <<TimestampLine(time.s)>> ELSE <<>>))

-----------------------------------------------------------------------------
(* Inputs *)

\* numerators and denominators the rationals are drawn from
Nums == {0, 1, 7}

TimeNums == {0, 7, 100}

Dens == {0, 1, 2}

Rationals == [num : Nums, denom : Dens]

TimeRationals == [num : TimeNums, denom : Dens]

SeqsUpTo(set, n) == UNION {[1..len -> set] : len \in 0..n}

\* reference strings handed to the converter
RefStrings == {N, S, E, W, <<>>, <<"s">>, <<"S", "W">>}

FileKinds == {"ok", "unopenable", "no_exif"}

\* frame.image() is None
NoImage == [path |-> "none", w |-> 0, h |-> 0]

GuiIdle ==
    /\ frame_image = NoImage
    /\ current_path = "none"
    /\ last_loaded = "none"
    /\ alive = TRUE
    /\ dialog = "none"
    /\ windows = 0
    /\ shown = <<>>

GuiUnchanged == UNCHANGED <<frame_image, current_path, last_loaded, alive, dialog, windows, shown>>

-----------------------------------------------------------------------------
(* Specification of the converter alone *)

InitConv ==
    /\ pc = "ready"
    /\ call = "none"
    /\ file_kind = "ok"
    /\ exif = NoTags
    /\ components \in SeqsUpTo(Rationals, MaxLen)
    /\ reference \in RefStrings
    /\ ret = Pending
    /\ GuiIdle

CallConvert ==
    /\ pc = "ready"
    /\ pc' = "returned"
    /\ call' = "convert_to_decimal_degree"
    /\ ret' = RetF64(convert_to_decimal_degree(components, reference))
    /\ UNCHANGED <<file_kind, exif, components, reference>>
    /\ GuiUnchanged

NextConv == CallConvert

SpecConv == InitConv /\ [][NextConv]_vars

-----------------------------------------------------------------------------
(* Specification of get_gps_altitude alone *)

AltitudeValues ==
    {Absent, Short, Ascii(<<N>>)}
        \cup {Rational(rs) : rs \in SeqsUpTo(Rationals, MaxLen)}

AltitudeRefValues ==
    {Absent, Short, Ascii(<<N>>)}
        \cup {Byte(bs) : bs \in SeqsUpTo({0, 1, 2}, 2)}

InitAlt ==
    /\ pc = "ready"
    /\ call = "none"
    /\ file_kind = "ok"
    /\ \E a \in AltitudeValues, r \in AltitudeRefValues :
           exif = [NoTags EXCEPT !["GPSAltitude"] = a, !["GPSAltitudeRef"] = r]
    /\ components = <<>>
    /\ reference = <<>>
    /\ ret = Pending
    /\ GuiIdle

CallAltitude ==
    /\ pc = "ready"
    /\ pc' = "returned"
    /\ call' = "get_gps_altitude"
    /\ ret' = get_gps_altitude(exif)
    /\ UNCHANGED <<file_kind, exif, components, reference>>
    /\ GuiUnchanged

NextAlt == CallAltitude

SpecAlt == InitAlt /\ [][NextAlt]_vars

-----------------------------------------------------------------------------
(* Specification of get_gps_timestamp alone *)

Date == <<"2", "0", "2", "3", ":", "0", "4", ":", "0", "1">>

TimeStampValues ==
    {Absent, Short, Ascii(<<N>>)}
        \cup {Rational(rs) : rs \in SeqsUpTo(TimeRationals, MaxLen)}

DateStampValues ==
    {Absent, Short, Rational(<<>>),
     Ascii(<<Date>>), Ascii(<<Date, N>>), Ascii(<<<<>>>>),
     Ascii(<<>>), Ascii(<<<<BadByte>>>>)}

InitTime ==
    /\ pc = "ready"
    /\ call = "none"
    /\ file_kind = "ok"
    /\ \E tm \in TimeStampValues, d \in DateStampValues :
           exif = [NoTags EXCEPT !["GPSTimeStamp"] = tm, !["GPSDateStamp"] = d]
    /\ components = <<>>
    /\ reference = <<>>
    /\ ret = Pending
    /\ GuiIdle

CallTimestamp ==
    /\ pc = "ready"
    /\ pc' = "returned"
    /\ call' = "get_gps_timestamp"
    /\ ret' = get_gps_timestamp(exif)
    /\ UNCHANGED <<file_kind, exif, components, reference>>
    /\ GuiUnchanged

NextTime == CallTimestamp

SpecTime == InitTime /\ [][NextTime]_vars

-----------------------------------------------------------------------------
(* Specification of get_file_info on an arbitrary container *)

GoodTriple == <<[num |-> 7, denom |-> 1], [num |-> 1, denom |-> 1],
                [num |-> 7, denom |-> 2]>>

CoordinateValues ==
    {Absent, Short, Rational(GoodTriple), Rational(SubSeq(GoodTriple, 1, 2)),
     Rational(<<[num |-> 7, denom |-> 0], [num |-> 1, denom |-> 1],
                [num |-> 0, denom |-> 1]>>)}

LatitudeRefValues ==
    {Absent, Short, Ascii(<<N>>), Ascii(<<S>>), Ascii(<<>>), Ascii(<<<<BadByte>>>>)}

LongitudeRefValues ==
    {Absent, Ascii(<<E>>), Ascii(<<W>>), Ascii(<<>>)}

InfoAltitudeValues ==
    {Absent, Rational(<<>>), Rational(<<[num |-> 7, denom |-> 2]>>),
     Rational(<<[num |-> 7, denom |-> 0]>>)}

InfoAltitudeRefValues == {Absent, Byte(<<0>>), Byte(<<1>>), Byte(<<>>)}

InfoTimeValues ==
    {Absent, Rational(<<[num |-> 7, denom |-> 1]>>),
     Rational(<<[num |-> 7, denom |-> 1], [num |-> 100, denom |-> 1],
                [num |-> 7, denom |-> 2]>>),
     Rational(<<[num |-> 7, denom |-> 0], [num |-> 0, denom |-> 0],
                [num |-> 7, denom |-> 1]>>)}

InfoDateValues == {Absent, Ascii(<<Date>>), Ascii(<<>>)}

Containers ==
    {[t \in Tags |->
        CASE t = "GPSLatitude" -> lat
          [] t = "GPSLatitudeRef" -> lat_ref
          [] t = "GPSLongitude" -> lon
          [] t = "GPSLongitudeRef" -> lon_ref
          [] t = "GPSAltitude" -> alt
          [] t = "GPSAltitudeRef" -> alt_ref
          [] t = "GPSTimeStamp" -> time
          [] OTHER -> date] :
        lat \in CoordinateValues, lat_ref \in LatitudeRefValues,
        lon \in CoordinateValues \ {Short}, lon_ref \in LongitudeRefValues,
        alt \in InfoAltitudeValues, alt_ref \in InfoAltitudeRefValues,
        time \in InfoTimeValues, date \in InfoDateValues}

InitInfo ==
    /\ pc = "ready"
    /\ call = "none"
    /\ file_kind \in FileKinds
    /\ exif \in (IF file_kind = "ok" THEN Containers ELSE {NoTags})
    /\ components = <<>>
    /\ reference = <<>>
    /\ ret = Pending
    /\ GuiIdle

CallFileInfo ==
    /\ pc = "ready"
    /\ pc' = "returned"
    /\ call' = "get_file_info"
    /\ ret' = get_file_info(file_kind, exif)
    /\ UNCHANGED <<file_kind, exif, components, reference>>
    /\ GuiUnchanged

NextInfo == CallFileInfo

SpecInfo == InitInfo /\ [][NextInfo]_vars

-----------------------------------------------------------------------------
(* The window of main: Open Image and Image Info *)

\* size of the display frame, Frame::new(0, 40, 800, 560, "")
FrameWidth == 800
FrameHeight == 560

GpsTags ==
    [NoTags EXCEPT !["GPSLatitude"] = Rational(GoodTriple),
                   !["GPSLatitudeRef"] = Ascii(<<S>>),
                   !["GPSLongitude"] = Rational(GoodTriple),
                   !["GPSLongitudeRef"] = Ascii(<<E>>),
                   !["GPSAltitude"] = Rational(<<[num |-> 7, denom |-> 2]>>),
                   !["GPSAltitudeRef"] = Byte(<<1>>),
                   !["GPSTimeStamp"] = Rational(GoodTriple),
                   !["GPSDateStamp"] = Ascii(<<Date>>)]

File(utf8, decodes, rgb_ok, width, height, kind, ex) ==
    [utf8 |-> utf8, decodes |-> decodes, rgb_ok |-> rgb_ok,
     width |-> width, height |-> height, kind |-> kind, exif |-> ex]

\* what the file dialog can return, and the file behind each name:
\*   utf8     the filename converts with to_str
\*   decodes  image::open succeeds
\*   rgb_ok   RgbImage::new accepts the decoded pixels
FileSystem ==
    [name \in {"", "gps.jpg", "tall.png", "alt.tif", "empty_ref.jpg",
               "text.jpg", "odd.bmp", "raw_name"} |->
        CASE name = "gps.jpg" -> File(TRUE, TRUE, TRUE, 1600, 1200, "ok", GpsTags)
          [] name = "tall.png" -> File(TRUE, TRUE, TRUE, 100, 400, "no_exif", NoTags)
          [] name = "alt.tif" ->
                File(TRUE, TRUE, TRUE, 800, 560, "ok",
                     [GpsTags EXCEPT !["GPSLongitudeRef"] = Absent])
          [] name = "empty_ref.jpg" ->
                File(TRUE, TRUE, TRUE, 640, 480, "ok",
                     [GpsTags EXCEPT !["GPSLatitudeRef"] = Ascii(<<>>)])
          [] name = "text.jpg" -> File(TRUE, FALSE, FALSE, 0, 0, "ok", GpsTags)
          [] name = "odd.bmp" -> File(TRUE, TRUE, FALSE, 32, 32, "no_exif", NoTags)
          [] name = "raw_name" -> File(FALSE, TRUE, TRUE, 32, 32, "no_exif", NoTags)
          [] OTHER -> File(TRUE, FALSE, FALSE, 0, 0, "unopenable", NoTags)]

Filenames == DOMAIN FileSystem

load_any_image(path) ==
    IF FileSystem[path].decodes /\ FileSystem[path].rgb_ok
    THEN Some([path |-> path, w |-> FileSystem[path].width, h |-> FileSystem[path].height])
    ELSE None

\* image.scale(new_w, new_h, ..) with scale = min(frame_w / w, frame_h / h)
Scaled(image, frame_w, frame_h) ==
    IF frame_w * image.h <= frame_h * image.w
    THEN [image EXCEPT !.w = frame_w, !.h = (image.h * frame_w) \div image.w]
    ELSE [image EXCEPT !.w = (image.w * frame_h) \div image.h, !.h = frame_h]

\* an Open Image callback that stores the path before the image is loaded
open_btn_stores_path_first(filename) ==
    /\ alive
    /\ call' = "open_btn"
    /\ dialog' = filename
    /\ IF FileSystem[filename].utf8
       THEN /\ current_path' = filename
            /\ LET image == load_any_image(filename)
               IN IF image.st = "Some"
                  THEN /\ frame_image' = Scaled(image.v, FrameWidth, FrameHeight)
                       /\ last_loaded' = filename
                  ELSE UNCHANGED <<frame_image, last_loaded>>
       ELSE UNCHANGED <<frame_image, current_path, last_loaded>>
    /\ UNCHANGED <<pc, file_kind, exif, components, reference, ret,
                   alive, windows, shown>>

\* the Open Image callback, with the filename the dialog returns
open_btn_callback(filename) ==
    /\ alive
    /\ call' = "open_btn"
    /\ dialog' = filename
    /\ LET image == IF FileSystem[filename].utf8
                    THEN load_any_image(filename) ELSE None
       IN IF image.st = "Some"
          THEN /\ frame_image' = Scaled(image.v, FrameWidth, FrameHeight)
               /\ current_path' = filename
               /\ last_loaded' = filename
          ELSE UNCHANGED <<frame_image, current_path, last_loaded>>
    /\ UNCHANGED <<pc, file_kind, exif, components, reference, ret,
                   alive, windows, shown>>

OpenImage == \E filename \in Filenames : open_btn_callback(filename)

\* the three lines computed from the displayed image
ImageLines(image) ==
    <<[line |-> "Dimensions", w |-> image.w, h |-> image.h],
      [line |-> "Aspect Ratio", w |-> image.w, h |-> image.h],
      [line |-> "Print Size at 300 DPI", w |-> image.w, h |-> image.h]>>

\* the Image Info callback: the window is shown once every line is built
InfoShown ==
    /\ alive
    /\ frame_image # NoImage
    /\ windows < MaxWindows
    /\ LET info == IF current_path = "none" THEN RetLines(<<>>)
                   ELSE get_file_info(FileSystem[current_path].kind,
                                      FileSystem[current_path].exif)
       IN /\ info.st # "Panic"
          /\ shown' = <<ImageLines(frame_image), info.lines>>
    /\ windows' = windows + 1
    /\ call' = "info_btn"
    /\ UNCHANGED <<pc, file_kind, exif, components, reference, ret,
                   frame_image, current_path, last_loaded, alive, dialog>>

\* the Image Info callback without an image: nothing happens
InfoWithoutImage ==
    /\ alive
    /\ frame_image = NoImage
    /\ call' = "info_btn"
    /\ UNCHANGED <<pc, file_kind, exif, components, reference, ret,
                   frame_image, current_path, last_loaded, alive, dialog,
                   windows, shown>>

\* the Image Info callback when get_file_info panics: no window is shown; the
\* panic is either caught where the callback was invoked or ends the process
InfoPanics ==
    /\ alive
    /\ frame_image # NoImage
    /\ current_path # "none"
    /\ get_file_info(FileSystem[current_path].kind,
                     FileSystem[current_path].exif).st = "Panic"
    /\ alive' \in BOOLEAN
    /\ call' = "info_btn"
    /\ UNCHANGED <<pc, file_kind, exif, components, reference, ret,
                   frame_image, current_path, last_loaded, dialog,
                   windows, shown>>

ImageInfo == InfoShown \/ InfoWithoutImage \/ InfoPanics

InitGui ==
    /\ pc = "ready"
    /\ call = "none"
    /\ file_kind = "ok"
    /\ exif = NoTags
    /\ components = <<>>
    /\ reference = <<>>
    /\ ret = Pending
    /\ GuiIdle

NextGui == OpenImage \/ ImageInfo

SpecGui == InitGui /\ [][NextGui]_vars

-----------------------------------------------------------------------------
(* Claims about convert_to_decimal_degree, under SpecConv *)

Converted == pc = "returned" /\ call = "convert_to_decimal_degree"

NonZeroDenominators(rs) == \A i \in 1..Len(rs) : rs[i].denom # 0

\* C5: for every component sequence whose length is not 3 the converter
\* returns exactly 0.0 (positive zero), whatever the rationals hold and
\* whatever the reference string is; "S" and "W" apply no negation.
C5_NonTripleYieldsZero ==
    (Converted /\ Len(components) # 3)
        => /\ ret.st = "Some"
           /\ ret.f = [k |-> "fin", neg |-> FALSE, n |-> 0, d |-> 1]

\* a sequence of four non-zero components with reference "S" was converted
C5_Witness ==
    /\ Converted
    /\ Len(components) = 4
    /\ \A i \in 1..4 : components[i] = [num |-> 7, denom |-> 1]
    /\ reference = S

\* numerator and denominator of degrees + minutes/60 + seconds/3600
ExactNum(rs) ==
    3600 * rs[1].num * rs[2].denom * rs[3].denom
        + 60 * rs[2].num * rs[1].denom * rs[3].denom
        + rs[3].num * rs[1].denom * rs[2].denom

ExactDen(rs) == 3600 * rs[1].denom * rs[2].denom * rs[3].denom

\* C6: for three components with non-zero denominators the converter returns
\* degrees + minutes/60 + seconds/3600, negated exactly when the reference is
\* "S" or "W"; the "S" result is the negation of the "N" result, and any
\* other reference leaves the result non-negated.
C6_DecimalFormula ==
    (Converted /\ Len(components) = 3 /\ NonZeroDenominators(components))
        => /\ ret.st = "Some"
           /\ ret.f.k = "fin"
           /\ ret.f.d > 0
           /\ ret.f.n * ExactDen(components) = ret.f.d * ExactNum(components)
           /\ ret.f.neg <=> (reference = <<"S">> \/ reference = <<"W">>)
           /\ reference = <<"S">>
                  => LET north == convert_to_decimal_degree(components, <<"N">>)
                     IN /\ ret.f.n = north.n /\ ret.f.d = north.d
                        /\ ret.f.neg # north.neg

\* 7 degrees, 1 minute, 7/2 seconds south was converted to a negative fraction
C6_Witness ==
    /\ Converted
    /\ components = <<[num |-> 7, denom |-> 1], [num |-> 1, denom |-> 1],
                      [num |-> 7, denom |-> 2]>>
    /\ reference = S
    /\ ret.f.neg
    /\ ret.f.d > 1

-----------------------------------------------------------------------------
(* Claims about get_gps_altitude, under SpecAlt *)

AltitudeReturned == pc = "returned" /\ call = "get_gps_altitude"

AltitudePresent ==
    /\ exif["GPSAltitude"].kind = "Rational"
    /\ Len(exif["GPSAltitude"].rationals) > 0

BelowSeaLevel ==
    /\ exif["GPSAltitudeRef"].kind = "Byte"
    /\ Len(exif["GPSAltitudeRef"].bytes) > 0
    /\ exif["GPSAltitudeRef"].bytes[1] # 0

FirstAltitude == to_f64(exif["GPSAltitude"].rationals[1])

AltitudeAsClaimed ==
    /\ ret.st = "Some" <=> AltitudePresent
    /\ AltitudePresent
           => ret.f = IF BelowSeaLevel THEN F64Neg(FirstAltitude) ELSE FirstAltitude

\* C7: get_gps_altitude returns a value exactly when GPSAltitude is a
\* non-empty rational sequence; the value is the first rational, negated
\* exactly when GPSAltitudeRef is a byte value whose first byte is nonzero.
C7_AltitudeExactlyWhenPresent == AltitudeReturned => AltitudeAsClaimed

\* the same statement for every container whose GPSAltitudeRef is not a Byte
\* value of zero bytes
C7_HoldsUnlessRefHasNoBytes ==
    (AltitudeReturned /\ exif["GPSAltitudeRef"] # Byte(<<>>)) => AltitudeAsClaimed

-----------------------------------------------------------------------------
(* Claims about get_gps_timestamp, under SpecTime *)

TimestampReturned == pc = "returned" /\ call = "get_gps_timestamp"

TimePresent ==
    /\ exif["GPSTimeStamp"].kind = "Rational"
    /\ Len(exif["GPSTimeStamp"].rationals) = 3

TimeComponents == exif["GPSTimeStamp"].rationals

\* GPSDateStamp holds text: an Ascii value whose first string decodes
DateIsText ==
    /\ exif["GPSDateStamp"].kind = "Ascii"
    /\ Len(exif["GPSDateStamp"].chars) > 0
    /\ IsUtf8(exif["GPSDateStamp"].chars[1])

DatePrefixLen ==
    IF DateIsText THEN Len(exif["GPSDateStamp"].chars[1]) + 1 ELSE 0

\* the returned string after the date and its blank
TimePart == SubSeq(ret.s, DatePrefixLen + 1, Len(ret.s))

Colons == {i \in 1..Len(TimePart) : TimePart[i] = ":"}

FirstColon == CHOOSE i \in Colons : \A j \in Colons : i <= j

LastColon == CHOOSE i \in Colons : \A j \in Colons : j <= i

\* the hour, minute and second fields as they stand in the returned string
FieldsOfTimePart ==
    <<SubSeq(TimePart, 1, FirstColon - 1),
      SubSeq(TimePart, FirstColon + 1, LastColon - 1),
      SubSeq(TimePart, LastColon + 1, Len(TimePart))>>

IsDigits(str) ==
    \A i \in 1..Len(str) :
        str[i] \in {"0", "1", "2", "3", "4", "5", "6", "7", "8", "9"}

WellFormedTimePart ==
    /\ Cardinality(Colons) = 2
    /\ \A i \in 1..3 : IsDigits(FieldsOfTimePart[i]) /\ Len(FieldsOfTimePart[i]) > 0

\* C4 as claimed: in every timestamp string the hour, minute and second
\* fields are each exactly two decimal digits.
C4_ExactlyTwoDigits ==
    (TimestampReturned /\ ret.st = "Some")
        => /\ WellFormedTimePart
           /\ \A i \in 1..3 : Len(FieldsOfTimePart[i]) = 2

\* C4 as amended: each field is the decimal numeral of the component cast to
\* u32, zero-padded on the left to at least two digits; it has exactly two
\* digits when the numeral has one or two, and is the unpadded numeral when
\* the value is 100 or more.
C4_AtLeastTwoDigits ==
    (TimestampReturned /\ ret.st = "Some")
        => /\ WellFormedTimePart
           /\ \A i \in 1..3 :
                  LET value == AsU32(to_f64(TimeComponents[i]))
                      field == FieldsOfTimePart[i]
                  IN /\ Len(field) >= 2
                     /\ Len(value) = 1 => field = <<"0", value[1]>>
                     /\ Len(value) >= 2 => field = value

\* a timestamp of 100 hours, 7 minutes and 3 (7/2) seconds was formatted
C4_Witness ==
    /\ TimestampReturned
    /\ ret.st = "Some"
    /\ TimeComponents = <<[num |-> 100, denom |-> 1], [num |-> 7, denom |-> 1],
                          [num |-> 7, denom |-> 2]>>
    /\ FieldsOfTimePart = <<(<<"1", "0", "0">>), (<<"0", "7">>), (<<"0", "3">>)>>

\* the numeral of num/denom truncated toward zero, at least two digits wide
TruncatedField(r) ==
    LET ds == Numeral(r.num \div r.denom)
    IN IF Len(ds) = 1 THEN <<"0", ds[1]>> ELSE ds

TimestampAsClaimed ==
    /\ ret.st = "Some" <=> TimePresent
    /\ (TimePresent /\ NonZeroDenominators(TimeComponents))
           => ret.s = (IF DateIsText
                       THEN exif["GPSDateStamp"].chars[1] \o <<" ">>
                       ELSE <<>>)
                      \o TruncatedField(TimeComponents[1]) \o <<":">>
                      \o TruncatedField(TimeComponents[2]) \o <<":">>
                      \o TruncatedField(TimeComponents[3])

\* C8: get_gps_timestamp returns a string exactly when GPSTimeStamp is a
\* rational sequence of length 3; the fields are the rationals truncated
\* toward zero; the string is "<date> HH:MM:SS" when GPSDateStamp holds text
\* and the bare "HH:MM:SS" otherwise.
C8_TimestampExactlyWhenTriple == TimestampReturned => TimestampAsClaimed

\* the same statement for every container whose GPSDateStamp is not an Ascii
\* value of zero strings
C8_HoldsUnlessDateHasNoStrings ==
    (TimestampReturned /\ exif["GPSDateStamp"] # Ascii(<<>>)) => TimestampAsClaimed

-----------------------------------------------------------------------------
(* Claims about get_file_info, under SpecInfo *)

InfoReturned == pc = "returned" /\ call = "get_file_info" /\ file_kind = "ok"

LinesOf(kind) == SelectSeq(ret.lines, LAMBDA l : l.line = kind)

Emitted(kind) == Len(LinesOf(kind)) > 0

\* a reference tag holds text: an Ascii value none of whose strings fails to
\* decode (the AsciiText of the data model)
HoldsText(value) ==
    /\ value.kind = "Ascii"
    /\ \A i \in 1..Len(value.chars) : IsUtf8(value.chars[i])

AllFourPresent ==
    /\ exif["GPSLatitude"].kind = "Rational"
    /\ HoldsText(exif["GPSLatitudeRef"])
    /\ exif["GPSLongitude"].kind = "Rational"
    /\ HoldsText(exif["GPSLongitudeRef"])

CoordinatesAsClaimed ==
    /\ Emitted("Location") <=> Emitted("Google Maps Link")
    /\ Emitted("Location") <=> AllFourPresent

\* C1: a latitude and a longitude are emitted together (the Location line
\* and the Google Maps Link line) exactly when all four coordinate tags are
\* present with the expected type; never exactly one of the two.
C1_CoordinatesAllOrNothing == InfoReturned => CoordinatesAsClaimed

\* the same statement for every call that returns
C1_HoldsUnlessPanic == (InfoReturned /\ ret.st # "Panic") => CoordinatesAsClaimed

\* C2: no parsed container makes the extraction panic; every problem is
\* encoded as an absent field.
C2_NeverPanics == pc = "returned" => ret.st # "Panic"

ZeroDenominator(rs) == \E i \in 1..Len(rs) : rs[i].denom = 0

TimeHasZeroDenominator ==
    /\ exif["GPSTimeStamp"].kind = "Rational"
    /\ Len(exif["GPSTimeStamp"].rationals) = 3
    /\ ZeroDenominator(exif["GPSTimeStamp"].rationals)

\* C3: a rational whose denominator is 0 is invalid: no infinite or NaN
\* coordinate or altitude and no hour, minute or second derived from such a
\* rational appears in the output.
C3_ZeroDenominatorIsInvalid ==
    InfoReturned
        => /\ \A i \in 1..Len(ret.lines) :
                  /\ ret.lines[i].lat.k = "fin"
                  /\ ret.lines[i].lon.k = "fin"
                  /\ ret.lines[i].alt.k = "fin"
           /\ TimeHasZeroDenominator => ~Emitted("GPS Timestamp")

CoordinateTags == {"GPSLatitude", "GPSLatitudeRef", "GPSLongitude", "GPSLongitudeRef"}

AltitudeTags == {"GPSAltitude", "GPSAltitudeRef"}

TimeTags == {"GPSTimeStamp", "GPSDateStamp"}

\* the container with every tag outside `keep` removed
Only(keep) == [t \in Tags |-> IF t \in keep THEN exif[t] ELSE Absent]

\* the lines of one kind that the tags in `keep` yield on their own
LinesFrom(keep, kind) ==
    SelectSeq(get_file_info("ok", Only(keep)).lines, LAMBDA l : l.line = kind)

FactsIndependent ==
    /\ LinesOf("Location") = LinesFrom(CoordinateTags, "Location")
    /\ LinesOf("Google Maps Link") = LinesFrom(CoordinateTags, "Google Maps Link")
    /\ LinesOf("Altitude") = LinesFrom(AltitudeTags, "Altitude")
    /\ LinesOf("GPS Timestamp") = LinesFrom(TimeTags, "GPS Timestamp")

\* C9: the coordinate, altitude and timestamp lines each depend only on their
\* own tags: what the other tags hold never suppresses or changes them.
C9_FactsIndependent == InfoReturned => FactsIndependent

\* the same statement for every call that returns
C9_HoldsUnlessPanic == (InfoReturned /\ ret.st # "Panic") => FactsIndependent

-----------------------------------------------------------------------------
(* Claim about the two callbacks of main, under SpecGui *)

\* a filename whose image load succeeds
Loadable(name) ==
    /\ FileSystem[name].utf8
    /\ FileSystem[name].decodes
    /\ FileSystem[name].rgb_ok

PathMatchesImage ==
    /\ current_path # "none" <=> frame_image # NoImage
    /\ current_path # "none"
           => /\ current_path = last_loaded
              /\ frame_image.path = current_path

ClickKeepsWhatItShould ==
    /\ call' = "info_btn"
           => frame_image' = frame_image /\ current_path' = current_path
    /\ (call' = "open_btn" /\ ~Loadable(dialog'))
           => frame_image' = frame_image /\ current_path' = current_path
    /\ (call' = "open_btn" /\ Loadable(dialog'))
           => current_path' = dialog' /\ frame_image'.path = dialog'

\* C10: after any sequence of Open Image and Image Info clicks the stored
\* path is set exactly when the frame holds an image, and is then the path of
\* the most recently successfully loaded image; an Open Image click whose
\* load fails changes neither the image nor the path, and an Image Info click
\* changes neither.
C10_PathTracksImage == []PathMatchesImage /\ [][ClickKeepsWhatItShould]_vars

\* an image was loaded, a later Open Image click failed to load another, and
\* Image Info then showed a window for the first
C10_Witness ==
    /\ current_path = "gps.jpg"
    /\ frame_image.path = "gps.jpg"
    /\ dialog = "odd.bmp"
    /\ call = "info_btn"
    /\ windows = 1

====
